---- MODULE Spec2Model ----
(***************************************************************************)
(* The biography generation workflow of src/pages/Home.tsx: the Home       *)
(* component's six useState cells, the generateBiography handler around    *)
(* one provider call, the copyToClipboard handler with its 2000 ms timer,  *)
(* and the render conditions that decide what the user sees.               *)
(*                                                                         *)
(* The strings the code trims (bioInfo, the response text, biography) are   *)
(* sequences of UTF-16 code units, so that '' is <<>>, 97 is "a", 32 the    *)
(* space and 13 the carriage return, and String.prototype.trim is computed *)
(* unit by unit.  The nullable error cell is an option: <<>> is null,      *)
(* <<m>> is the string m.                                                  *)
(***************************************************************************)
EXTENDS Integers, Sequences, FiniteSets

\* ---- bounds of the model ----
MaxInfoLen == 1
MaxTextLen == 3
MaxCalls == 2
MaxTimers == 2
TickMs == 1000

\* ---- constants of the program ----
CopyResetMs == 2000
ConfigMsg == "API key not configured. Please add your Gemini API key to continue."
GenericMsg == "An error occurred while generating the biography"

\* the code units typed into the textarea in the model: "a" and the space
InfoAlphabet == {97, 32}

\* the code units of the provider's response text in the model: "a" and "\r"
TextAlphabet == {97, 13}

\* what String.prototype.trim strips: ECMAScript WhiteSpace (TAB, VT, FF, the
\* Unicode Zs spaces, U+FEFF) and LineTerminator (LF, CR, U+2028, U+2029)
WhiteSpace ==
  {9, 10, 11, 12, 13, 32, 160, 5760} \cup (8192..8202)
    \cup {8232, 8233, 8239, 8287, 12288, 65279}
BioTypes == {"professional", "social"}

Strings(A, n) == UNION {[1..k -> A] : k \in 0..n}

\* values a rejected provider promise (or a throw inside the try block) can carry:
\* an Error with a message, an Error constructed without one, a non-Error value
RejectValues ==
  { [isError |-> TRUE, message |-> "rate limited"],
    [isError |-> TRUE, message |-> ""],
    [isError |-> FALSE, message |-> ""] }

NoErr == [isError |-> FALSE, message |-> ""]

NoPrompt == [head |-> "", info |-> <<>>, tail |-> ""]

VARIABLES bioInfo, bioType, biography, loading, copied, error,
          genAI, inflight, callCount, writesPending, timers, sinceCopy, lastOp

vars == <<bioInfo, bioType, biography, loading, copied, error,
          genAI, inflight, callCount, writesPending, timers, sinceCopy, lastOp>>

\* ---- pure helpers ----
RECURSIVE TrimStart(_)
TrimStart(s) ==
  IF s = <<>> THEN s
  ELSE IF Head(s) \in WhiteSpace THEN TrimStart(Tail(s)) ELSE s

RECURSIVE TrimEnd(_)
TrimEnd(s) ==
  IF s = <<>> THEN s
  ELSE IF s[Len(s)] \in WhiteSpace THEN TrimEnd(SubSeq(s, 1, Len(s) - 1)) ELSE s

TrimStartOnly(s) == TrimStart(s)
Trim(s) == TrimEnd(TrimStart(s))

\* the template literal of lines 57-63: fixed text, the raw input, fixed text
PromptHead(t) ==
  IF t = "professional"
  THEN "Create a professional biography based on the following information: "
  ELSE "Create an engaging social media bio based on the following information: "

PromptTail(t) ==
  IF t = "professional"
  THEN ". \n           The biography should be formal, highlight achievements, and be suitable for professional platforms like LinkedIn or company websites.\n           Include relevant accomplishments, experience, and expertise. Keep it between 150-300 words."
  ELSE ".\n           The bio should be concise, engaging, and perfect for platforms like Twitter, Instagram, or TikTok.\n           Make it catchy and memorable while highlighting key aspects. Keep it under 160 characters."

\* the prompt string as its three consecutive segments
BuildPrompt(t, info) == [head |-> PromptHead(t), info |-> info, tail |-> PromptTail(t)]

\* JavaScript truthiness of the error cell: neither null nor ''
Truthy(e) == e # <<>> /\ e[1] # ""

\* lastOp names the last step of generateBiography that ran ("generateBiography"
\* with the prompt it handed to the provider, if any; "resolve" with the response
\* text; "reject" with the rejection value), or
\* "other" when the last step was an edit, a copy, a timer or the clock
Op(name) == [op |-> name, text |-> <<>>, err |-> NoErr, prompt |-> NoPrompt]

Min(a, b) == IF a < b THEN a ELSE b
Max(a, b) == IF a > b THEN a ELSE b

\* ---- what the component renders ----
ButtonDisabledNoLoading == Trim(bioInfo) = <<>>
ButtonDisabled == loading \/ Trim(bioInfo) = <<>>

CopyButtonShown == biography # <<>>

Phase ==
  IF loading THEN "Loading"
  ELSE IF Truthy(error) THEN "Error"
  ELSE IF biography # <<>> THEN "Success"
  ELSE "Idle"

\* ---- pieces of generateBiography ----
EarlyReturnRaw == bioInfo = <<>>
EarlyReturn == Trim(bioInfo) = <<>>

ClientMissingNever == FALSE
ClientMissing == genAI = "absent"

CatchError(err) == IF err.isError THEN <<err.message>> ELSE <<GenericMsg>>

CatchBiographyKept == biography
CatchBiography == <<>>

FinallyLoadingStuck == loading
FinallyLoading == FALSE

Init ==
  /\ bioInfo = <<>>
  /\ bioType = "professional"
  /\ biography = <<>>
  /\ loading = FALSE
  /\ copied = FALSE
  /\ error = <<>>
  /\ genAI \in {"client", "absent"}
  /\ inflight = {}
  /\ callCount = 0
  /\ writesPending = 0
  /\ timers = <<>>
  /\ sinceCopy = CopyResetMs
  /\ lastOp = Op("init")

\* ---- form editing ----
setBioInfo(v) ==
  /\ bioInfo' = v
  /\ lastOp' = Op("other")
  /\ UNCHANGED <<bioType, biography, loading, copied, error, genAI, inflight,
                 callCount, writesPending, timers, sinceCopy>>

setBioType(t) ==
  /\ bioType' = t
  /\ lastOp' = Op("other")
  /\ UNCHANGED <<bioInfo, biography, loading, copied, error, genAI, inflight,
                 callCount, writesPending, timers, sinceCopy>>

\* ---- generateBiography, up to its await ----
generateBiography ==
  /\ EarlyReturn \/ ClientMissing \/ callCount < MaxCalls
  /\ IF EarlyReturn
     THEN /\ lastOp' = Op("generateBiography")
          /\ UNCHANGED <<biography, loading, error, inflight, callCount>>
     ELSE IF ClientMissing
     THEN /\ error' = CatchError([isError |-> TRUE, message |-> ConfigMsg])
          /\ biography' = CatchBiography
          /\ loading' = FinallyLoading
          /\ lastOp' = Op("generateBiography")
          /\ UNCHANGED <<inflight, callCount>>
     ELSE /\ loading' = TRUE
          /\ error' = <<>>
          /\ callCount' = callCount + 1
          /\ inflight' = inflight \cup {[id |-> callCount + 1]}
          /\ lastOp' = [op |-> "generateBiography", text |-> <<>>, err |-> NoErr,
                        prompt |-> BuildPrompt(bioType, bioInfo)]
          /\ UNCHANGED biography
  /\ UNCHANGED <<bioInfo, bioType, copied, genAI, writesPending, timers, sinceCopy>>

\* a click on the submit button reaches the handler only while the button is enabled
ClickGenerate == ~ButtonDisabled /\ generateBiography

\* ---- generateBiography, after its await ----
Resolve(c, text) ==
  /\ c \in inflight
  /\ inflight' = inflight \ {c}
  /\ biography' = Trim(text)
  /\ loading' = FinallyLoading
  /\ lastOp' = [op |-> "resolve", text |-> text, err |-> NoErr, prompt |-> NoPrompt]
  /\ UNCHANGED <<bioInfo, bioType, copied, error, genAI, callCount,
                 writesPending, timers, sinceCopy>>

Reject(c, err) ==
  /\ c \in inflight
  /\ inflight' = inflight \ {c}
  /\ error' = CatchError(err)
  /\ biography' = CatchBiography
  /\ loading' = FinallyLoading
  /\ lastOp' = [op |-> "reject", text |-> <<>>, err |-> err, prompt |-> NoPrompt]
  /\ UNCHANGED <<bioInfo, bioType, copied, genAI, callCount,
                 writesPending, timers, sinceCopy>>

ProviderResponds ==
  \E c \in inflight :
    \/ \E text \in Strings(TextAlphabet, MaxTextLen) : Resolve(c, text)
    \/ \E err \in RejectValues : Reject(c, err)

\* ---- copyToClipboard ----
ClickCopy ==
  /\ CopyButtonShown
  /\ writesPending + Len(timers) < MaxTimers
  /\ writesPending' = writesPending + 1
  /\ lastOp' = Op("other")
  /\ UNCHANGED <<bioInfo, bioType, biography, loading, copied, error, genAI,
                 inflight, callCount, timers, sinceCopy>>

ClipboardResolves ==
  /\ writesPending > 0
  /\ writesPending' = writesPending - 1
  /\ copied' = TRUE
  /\ timers' = Append(timers, CopyResetMs)
  /\ sinceCopy' = 0
  /\ lastOp' = Op("other")
  /\ UNCHANGED <<bioInfo, bioType, biography, loading, error, genAI,
                 inflight, callCount>>

ClipboardRejects ==
  /\ writesPending > 0
  /\ writesPending' = writesPending - 1
  /\ lastOp' = Op("other")
  /\ UNCHANGED <<bioInfo, bioType, biography, loading, copied, error, genAI,
                 inflight, callCount, timers, sinceCopy>>

TimerFires ==
  /\ timers # <<>>
  /\ Head(timers) = 0
  /\ timers' = Tail(timers)
  /\ copied' = FALSE
  /\ lastOp' = Op("other")
  /\ UNCHANGED <<bioInfo, bioType, biography, loading, error, genAI,
                 inflight, callCount, writesPending, sinceCopy>>

\* TickMs of wall-clock time pass
Tick ==
  /\ timers' = [i \in DOMAIN timers |-> Max(0, timers[i] - TickMs)]
  /\ sinceCopy' = Min(CopyResetMs, sinceCopy + TickMs)
  /\ lastOp' = Op("other")
  /\ UNCHANGED <<bioInfo, bioType, biography, loading, copied, error, genAI,
                 inflight, callCount, writesPending>>

Edits ==
  \/ \E v \in Strings(InfoAlphabet, MaxInfoLen) : setBioInfo(v)
  \/ \E t \in BioTypes : setBioType(t)

Copying ==
  \/ ClickCopy
  \/ ClipboardResolves
  \/ ClipboardRejects
  \/ TimerFires
  \/ Tick

\* the component as the browser drives it
Next ==
  \/ Edits
  \/ ClickGenerate
  \/ ProviderResponds
  \/ Copying

Spec == Init /\ [][Next]_vars

\* the provider eventually settles every call it was given
SpecLive == Spec /\ WF_vars(ProviderResponds)

\* s is empty or consists of whitespace only
IsBlank(s) == \A i \in DOMAIN s : s[i] \in WhiteSpace

\* the handler entered while the textarea is blank, where the button is
\* disabled and line 47 is the guard that acts; the call is made in any phase
InvokeBlank == IsBlank(bioInfo) /\ generateBiography

\* the component, and besides it the handler entered on blank input; a call is
\* dispatched only through the enabled button, as in Next
NextDirect ==
  \/ Edits
  \/ ClickGenerate
  \/ InvokeBlank
  \/ ProviderResponds
  \/ Copying

SpecDirect == Init /\ [][NextDirect]_vars

\* ---- vocabulary of the properties ----
\* b is t without its leading and trailing whitespace, the middle untouched
IsTrimOf(b, t) ==
  /\ b = <<>> \/ (b[1] \notin WhiteSpace /\ b[Len(b)] \notin WhiteSpace)
  /\ \E i \in 0..Len(t) :
       /\ i + Len(b) <= Len(t)
       /\ \A k \in 1..i : t[k] \in WhiteSpace
       /\ \A k \in 1..Len(b) : t[i + k] = b[k]
       /\ \A k \in (i + Len(b) + 1)..Len(t) : t[k] \in WhiteSpace

\* C1: in every reachable state at most one of the stored biography and the
\* error message is populated; in particular the Error phase has no biography.
C1_MutuallyExclusive ==
  /\ ~(biography # <<>> /\ error # <<>>)
  /\ Phase = "Error" => biography = <<>>

C1_Witness ==
  lastOp.op = "reject" /\ Phase = "Error" /\ biography = <<>> /\ callCount > 1

\* C3: at most one provider call is outstanding at any time, and the submit
\* button is enabled exactly when bioInfo is not blank and the phase is not Loading.
C3_OneOutstandingCall ==
  /\ Cardinality(inflight) <= 1
  /\ loading <=> inflight # {}
  /\ ~ButtonDisabled <=> (~IsBlank(bioInfo) /\ Phase # "Loading")

C3_Witness ==
  Cardinality(inflight) = 1 /\ ~IsBlank(bioInfo) /\ ButtonDisabled

\* C4: generateBiography invoked while bioInfo is empty or whitespace-only
\* changes none of loading, biography, error, copied, and dispatches no call.
C4_BlankSubmitIsNoOp ==
  [][(lastOp'.op = "generateBiography" /\ IsBlank(bioInfo))
     => UNCHANGED <<loading, biography, error, copied, inflight, callCount>>]_vars

C4_Witness ==
  /\ lastOp.op = "generateBiography"
  /\ bioInfo # <<>>
  /\ IsBlank(bioInfo)
  /\ loading

\* C5: with no provider client configured, a submission of non-blank bioInfo
\* ends in Error with the configuration message, no biography, loading false,
\* and no provider call has been made.
C5_MissingClient ==
  genAI = "absent" =>
    /\ callCount = 0
    /\ inflight = {}
    /\ ~loading
    /\ (lastOp.op = "generateBiography" /\ ~IsBlank(bioInfo)) =>
         /\ Phase = "Error"
         /\ error = <<ConfigMsg>>
         /\ biography = <<>>

C5_Witness ==
  genAI = "absent" /\ lastOp.op = "generateBiography" /\ error = <<ConfigMsg>>

\* C6: after a provider rejection the phase is Error and the error message is
\* the rejection's message when it has one and the generic message otherwise;
\* no further call is outstanding.
C6_ProviderMessageOrGeneric ==
  lastOp.op = "reject" =>
    /\ Phase = "Error"
    /\ error = <<IF lastOp.err.message # "" THEN lastOp.err.message ELSE GenericMsg>>
    /\ inflight = {}

\* C7: copied stays true until 2000 ms have passed since the latest completed
\* copy; an earlier copy's timer never resets it sooner.
C7_CopyWindowRestarts ==
  sinceCopy < CopyResetMs => copied

\* C8: while the workflow is Loading no biography of an earlier submission is stored.
C8_LoadingHasNoResult ==
  Phase = "Loading" => biography = <<>>

\* C9 as stated: after the provider call resolves the phase is Success, the
\* biography is the response text trimmed at both ends, and there is no error.
C9_ResolveIsSuccess ==
  lastOp.op = "resolve" =>
    /\ Phase = "Success"
    /\ IsTrimOf(biography, lastOp.text)
    /\ error = <<>>

\* C9 as amended: after the provider call resolves loading is false, the
\* biography is the response text trimmed at both ends with the middle
\* untouched, and there is no error; the phase is Success when that text is
\* not blank and Idle (nothing shown) when it is.
C9_ResolveStoresTrimmed ==
  lastOp.op = "resolve" =>
    /\ ~loading
    /\ IsTrimOf(biography, lastOp.text)
    /\ error = <<>>
    /\ Phase = (IF IsBlank(lastOp.text) THEN "Idle" ELSE "Success")

C9_Witness ==
  /\ lastOp.op = "resolve"
  /\ Len(lastOp.text) > Len(biography)
  /\ Len(biography) > 0

\* C10: every Loading state is eventually left once the provider settles the
\* call, and while not Loading the stored loading, biography and error change
\* only through the next submission.
C10_LoadingEnds ==
  /\ loading ~> ~loading
  /\ [][(~loading /\ lastOp'.op # "generateBiography")
        => UNCHANGED <<loading, biography, error>>]_vars

C10_Witness ==
  lastOp.op = "other" /\ Phase = "Success" /\ callCount > 0 /\ inflight = {}

====
